---------------------------- MODULE Spec2Model ----------------------------
(***************************************************************************)
(* Model of the requirements-extraction pipeline of                        *)
(* src/extract_requirements2.py (class RequirementsExtractor).             *)
(*                                                                         *)
(* A Python str is modelled as a sequence of one-character strings, so     *)
(* that lower(), split(), replace(), startswith(), the substring test      *)
(* `in` and the regular-expression key of the Refiner are computed         *)
(* character by character, as Python computes them.  The analysis engine   *)
(* (spaCy) and the sentence splitter (NLTK) are external: their output for *)
(* a small corpus of sentences is given as data (Corpus), and every stage  *)
(* that the repository implements is computed from it.                     *)
(***************************************************************************)
EXTENDS Integers, Sequences, FiniteSets, TLC

VARIABLES
  pc,               \* the next stage to run
  description,      \* the spans sent_tokenize found in the description
  sentences,        \* preprocess_text's result
  features,         \* extract_features' records (req_score attached by the Scorer)
  potential_reqs,   \* identify_potential_requirements' result
  formulated_reqs,  \* formulate_requirements' result (or the caller's drafts)
  refined_reqs,     \* refine_requirements' result
  classified_reqs,  \* classify_requirements' result = extract_requirements' result
  formatted_reqs    \* extract_and_format's result

vars == <<pc, description, sentences, features, potential_reqs, formulated_reqs,
          refined_reqs, classified_reqs, formatted_reqs>>

---------------------------------------------------------------------------
(* Bounds of the model.                                                    *)

\* longest description, in sentences
MaxSents == 3

\* longest draft list handed directly to the Refiner
MaxDrafts == 2

---------------------------------------------------------------------------
(* Python str operations, on sequences of characters.                      *)

UpperCase == <<"A","B","C","D","E","F","G","H","I","J","K","L","M","N","O","P","Q","R","S","T","U","V","W","X","Y","Z">> (* "ABCDEFGHIJKLMNOPQRSTUVWXYZ" *)

LowerCase == <<"a","b","c","d","e","f","g","h","i","j","k","l","m","n","o","p","q","r","s","t","u","v","w","x","y","z">> (* "abcdefghijklmnopqrstuvwxyz" *)

Digits == <<"0","1","2","3","4","5","6","7","8","9">> (* "0123456789" *)

Range(s) == {s[i] : i \in 1..Len(s)}

\* the characters str.split() and str.strip() treat as whitespace: the
\* ASCII characters c with c.isspace(), that is space, \t, \n, \r, \f,
\* vertical tab (0x0B) and the separators 0x1C-0x1F (the last five are
\* written as the characters themselves, TLA+ has no escape for them).
\* The strings of the model are ASCII.
Whitespace ==
  {" ", "\t", "\n", "\r", "\f", "", "", "", "", ""}

\* the characters kept by re.sub(r'[^a-zA-Z0-9]', '', ...)
AlphaNumeric == Range(UpperCase) \cup Range(LowerCase) \cup Range(Digits)

\* the lowercase letter of every uppercase letter
LowerOf ==
  [c \in Range(UpperCase) |->
     LowerCase[CHOOSE i \in 1..Len(UpperCase) : UpperCase[i] = c]]

lower_char(c) == IF c \in DOMAIN LowerOf THEN LowerOf[c] ELSE c

\* str.lower()
lower(s) == [i \in 1..Len(s) |-> lower_char(s[i])]

\* does p occur in s at position i
match_at(s, p, i) ==
  /\ i + Len(p) - 1 <= Len(s)
  /\ \A j \in 1..Len(p) : s[i + j - 1] = p[j]

\* s.startswith(p)
startswith(s, p) == match_at(s, p, 1)

\* s.endswith(p)
endswith(s, p) == Len(p) <= Len(s) /\ match_at(s, p, Len(s) - Len(p) + 1)

\* p in s (substring test)
contains(s, p) ==
  \E i \in 1..(Len(s) - Len(p) + 1) : \A j \in 1..Len(p) : s[i + j - 1] = p[j]

\* s.replace(old, new): every non-overlapping occurrence, leftmost first
replace(s, old, new) ==
  LET RECURSIVE go(_)
      go(i) == IF i > Len(s) THEN <<>>
               ELSE IF match_at(s, old, i) THEN new \o go(i + Len(old))
               ELSE <<s[i]>> \o go(i + 1)
  IN go(1)

\* s.strip()
strip(s) ==
  LET keep == {i \in 1..Len(s) : s[i] \notin Whitespace}
      first == CHOOSE i \in keep : \A j \in keep : i <= j
      last == CHOOSE i \in keep : \A j \in keep : j <= i
  IN IF keep = {} THEN <<>> ELSE SubSeq(s, first, last)

\* s.split(): the maximal runs of non-whitespace characters, in order
split(s) ==
  LET RECURSIVE go(_, _)
      go(i, word) ==
        IF i > Len(s) THEN (IF word = <<>> THEN <<>> ELSE <<word>>)
        ELSE IF s[i] \in Whitespace
          THEN (IF word = <<>> THEN <<>> ELSE <<word>>) \o go(i + 1, <<>>)
          ELSE go(i + 1, Append(word, s[i]))
  IN go(1, <<>>)

\* re.sub(r'[^a-zA-Z0-9]', '', s)
strip_non_alnum(s) ==
  LET IsAlnum(c) == c \in AlphaNumeric
  IN SelectSeq(s, IsAlnum)

\* x in list
in_list(x, list) == \E i \in 1..Len(list) : list[i] = x

\* any(k in s for k in keywords)
any_in(keywords, s) == \E i \in 1..Len(keywords) : contains(s, keywords[i])

\* the concatenation of a sequence of sequences
RECURSIVE Flatten(_)
Flatten(ss) == IF ss = <<>> THEN <<>> ELSE Head(ss) \o Flatten(Tail(ss))

\* [f(x) for x in s if Test(x)] is Map over SelectSeq; this is the index list
Indices(s) == [i \in 1..Len(s) |-> i]

---------------------------------------------------------------------------
(* The literal tables of the source.                                       *)

\* line 97
ACTION_VERBS ==
  << <<"a","l","l","o","w">> (* "allow" *), <<"e","n","a","b","l","e">> (* "enable" *), <<"p","r","o","v","i","d","e">> (* "provide" *), <<"s","u","p","p","o","r","t">> (* "support" *), <<"m","a","n","a","g","e">> (* "manage" *), <<"m","o","n","i","t","o","r">> (* "monitor" *),
     <<"c","h","e","c","k">> (* "check" *), <<"v","i","e","w">> (* "view" *), <<"b","o","o","k">> (* "book" *), <<"p","a","y">> (* "pay" *), <<"r","e","c","e","i","v","e">> (* "receive" *), <<"c","r","e","a","t","e">> (* "create" *), <<"t","r","a","c","k">> (* "track" *),
     <<"g","e","n","e","r","a","t","e">> (* "generate" *) >>

\* lines 116-117
MODALS == << <<"s","h","o","u","l","d">> (* "should" *), <<"m","u","s","t">> (* "must" *), <<"w","i","l","l">> (* "will" *), <<"c","a","n">> (* "can" *), <<"c","o","u","l","d">> (* "could" *) >>

\* line 151
requirement_keywords ==
  << <<"n","e","e","d">> (* "need" *), <<"r","e","q","u","i","r","e">> (* "require" *), <<"m","u","s","t">> (* "must" *), <<"s","h","o","u","l","d">> (* "should" *), <<"a","l","l","o","w">> (* "allow" *), <<"e","n","a","b","l","e">> (* "enable" *),
     <<"a","c","c","e","s","s">> (* "access" *), <<"v","i","e","w">> (* "view" *), <<"b","o","o","k">> (* "book" *), <<"r","e","s","e","r","v","e">> (* "reserve" *) >>

\* line 156
system_components ==
  << <<"m","a","c","h","i","n","e">> (* "machine" *), <<"p","a","y","m","e","n","t">> (* "payment" *), <<"r","e","s","e","r","v","a","t","i","o","n">> (* "reservation" *), <<"n","o","t","i","f","i","c","a","t","i","o","n">> (* "notification" *), <<"c","a","m","e","r","a">> (* "camera" *),
     <<"a","c","c","o","u","n","t">> (* "account" *), <<"f","e","e","d","b","a","c","k">> (* "feedback" *), <<"r","e","v","i","e","w">> (* "review" *) >>

\* line 161
user_roles == << <<"c","u","s","t","o","m","e","r">> (* "customer" *), <<"c","l","i","e","n","t">> (* "client" *), <<"u","s","e","r">> (* "user" *), <<"a","d","m","i","n","i","s","t","r","a","t","o","r">> (* "administrator" *), <<"o","w","n","e","r">> (* "owner" *) >>

\* line 186
customer_actors == << <<"c","u","s","t","o","m","e","r">> (* "customer" *), <<"c","l","i","e","n","t">> (* "client" *), <<"u","s","e","r">> (* "user" *) >>

\* line 188
administrator_actors == << <<"a","d","m","i","n","i","s","t","r","a","t","o","r">> (* "administrator" *), <<"a","d","m","i","n">> (* "admin" *), <<"o","w","n","e","r">> (* "owner" *) >>

\* line 241
lead_phrases ==
  << <<"t","h","e"," ","s","y","s","t","e","m"," ","s","h","a","l","l">> (* "the system shall" *), <<"t","h","e"," ","c","u","s","t","o","m","e","r"," ","s","h","o","u","l","d">> (* "the customer should" *), <<"t","h","e"," ","a","d","m","i","n","i","s","t","r","a","t","o","r"," ","s","h","o","u","l","d">> (* "the administrator should" *) >>

\* line 272
non_functional_keywords ==
  << <<"p","e","r","f","o","r","m","a","n","c","e">> (* "performance" *), <<"s","e","c","u","r","i","t","y">> (* "security" *), <<"r","e","l","i","a","b","i","l","i","t","y">> (* "reliability" *), <<"u","s","a","b","i","l","i","t","y">> (* "usability" *),
     <<"m","a","i","n","t","a","i","n","a","b","i","l","i","t","y">> (* "maintainability" *) >>

\* lines 278-286, in declaration order
category_keywords ==
  << [category |-> "Washing/Drying",
      keywords |-> << <<"m","a","c","h","i","n","e">> (* "machine" *), <<"w","a","s","h","e","r">> (* "washer" *), <<"d","r","y","e","r">> (* "dryer" *), <<"w","a","s","h","i","n","g">> (* "washing" *), <<"d","r","y","i","n","g">> (* "drying" *) >>],
     [category |-> "Security",
      keywords |-> << <<"s","e","c","u","r","i","t","y">> (* "security" *), <<"c","a","m","e","r","a">> (* "camera" *), <<"m","o","n","i","t","o","r">> (* "monitor" *), <<"s","u","r","v","e","i","l","l","a","n","c","e">> (* "surveillance" *) >>],
     [category |-> "Scheduling",
      keywords |-> << <<"s","c","h","e","d","u","l","e">> (* "schedule" *), <<"b","o","o","k","i","n","g">> (* "booking" *), <<"r","e","s","e","r","v","a","t","i","o","n">> (* "reservation" *), <<"b","o","o","k">> (* "book" *),
                      <<"r","e","s","e","r","v","e">> (* "reserve" *) >>],
     [category |-> "Payment",
      keywords |-> << <<"p","a","y","m","e","n","t">> (* "payment" *), <<"p","a","y">> (* "pay" *), <<"c","o","i","n">> (* "coin" *), <<"c","a","r","d">> (* "card" *), <<"c","r","e","d","i","t">> (* "credit" *),
                      <<"d","e","b","i","t">> (* "debit" *) >>],
     [category |-> "Reporting",
      keywords |-> << <<"r","e","p","o","r","t">> (* "report" *), <<"r","e","c","o","r","d">> (* "record" *), <<"t","r","a","c","k">> (* "track" *), <<"l","o","g">> (* "log" *) >>],
     [category |-> "Communication",
      keywords |-> << <<"c","o","m","m","u","n","i","c","a","t","e">> (* "communicate" *), <<"n","o","t","i","f","i","c","a","t","i","o","n">> (* "notification" *), <<"a","l","e","r","t">> (* "alert" *), <<"m","e","s","s","a","g","e">> (* "message" *) >>],
     [category |-> "Feedback",
      keywords |-> << <<"f","e","e","d","b","a","c","k">> (* "feedback" *), <<"r","e","v","i","e","w">> (* "review" *), <<"c","o","m","m","e","n","t">> (* "comment" *), <<"r","a","t","i","n","g">> (* "rating" *) >>] >>

\* line 171: candidates with req_score > 3 are kept
ScoreThreshold == 3

\* line 85: sentences with more than 5 words are kept
MinSentenceWords == 5

\* line 233: drafts with more than 4 words are kept
MinDraftWords == 4

---------------------------------------------------------------------------
(* The external analysis engine.  Corpus[i].doc is the parse the engine    *)
(* returns for Corpus[i].sentence: per token its text, lemma_, pos_, dep_  *)
(* and head (a token index), and the noun chunks with their text and root  *)
(* token.  A Doc object is held by reference, here its index in Corpus.    *)

Corpus ==
  <<
  \* 1: "The customer should book a washing machine."
  [sentence |-> <<"T","h","e"," ","c","u","s","t","o","m","e","r"," ","s","h","o","u","l","d"," ","b","o","o","k"," ","a"," ","w","a","s","h","i","n","g"," ","m","a","c","h","i","n","e",".">>,
   doc |-> [tokens |-> <<
      [text |-> <<"T","h","e">>, lemma |-> <<"t","h","e">>,
       pos |-> "DET", dep |-> "det", head |-> 2] (* The / the *),
      [text |-> <<"c","u","s","t","o","m","e","r">>, lemma |-> <<"c","u","s","t","o","m","e","r">>,
       pos |-> "NOUN", dep |-> "nsubj", head |-> 4] (* customer / customer *),
      [text |-> <<"s","h","o","u","l","d">>, lemma |-> <<"s","h","o","u","l","d">>,
       pos |-> "AUX", dep |-> "aux", head |-> 4] (* should / should *),
      [text |-> <<"b","o","o","k">>, lemma |-> <<"b","o","o","k">>,
       pos |-> "VERB", dep |-> "ROOT", head |-> 4] (* book / book *),
      [text |-> <<"a">>, lemma |-> <<"a">>,
       pos |-> "DET", dep |-> "det", head |-> 7] (* a / a *),
      [text |-> <<"w","a","s","h","i","n","g">>, lemma |-> <<"w","a","s","h","i","n","g">>,
       pos |-> "NOUN", dep |-> "compound", head |-> 7] (* washing / washing *),
      [text |-> <<"m","a","c","h","i","n","e">>, lemma |-> <<"m","a","c","h","i","n","e">>,
       pos |-> "NOUN", dep |-> "dobj", head |-> 4] (* machine / machine *),
      [text |-> <<".">>, lemma |-> <<".">>,
       pos |-> "PUNCT", dep |-> "punct", head |-> 4] (* . / . *)>>,
    noun_chunks |-> <<
      [text |-> <<"T","h","e"," ","c","u","s","t","o","m","e","r">>, root |-> 2] (* "The customer" *),
      [text |-> <<"a"," ","w","a","s","h","i","n","g"," ","m","a","c","h","i","n","e">>, root |-> 7] (* "a washing machine" *)>>,
    ents |-> <<>>]],
  \* 2: "The administrator must monitor the payment system for fraud."
  [sentence |-> <<"T","h","e"," ","a","d","m","i","n","i","s","t","r","a","t","o","r"," ","m","u","s","t"," ","m","o","n","i","t","o","r"," ","t","h","e"," ","p","a","y","m","e","n","t"," ","s","y","s","t","e","m"," ","f","o","r"," ","f","r","a","u","d",".">>,
   doc |-> [tokens |-> <<
      [text |-> <<"T","h","e">>, lemma |-> <<"t","h","e">>,
       pos |-> "DET", dep |-> "det", head |-> 2] (* The / the *),
      [text |-> <<"a","d","m","i","n","i","s","t","r","a","t","o","r">>, lemma |-> <<"a","d","m","i","n","i","s","t","r","a","t","o","r">>,
       pos |-> "NOUN", dep |-> "nsubj", head |-> 4] (* administrator / administrator *),
      [text |-> <<"m","u","s","t">>, lemma |-> <<"m","u","s","t">>,
       pos |-> "AUX", dep |-> "aux", head |-> 4] (* must / must *),
      [text |-> <<"m","o","n","i","t","o","r">>, lemma |-> <<"m","o","n","i","t","o","r">>,
       pos |-> "VERB", dep |-> "ROOT", head |-> 4] (* monitor / monitor *),
      [text |-> <<"t","h","e">>, lemma |-> <<"t","h","e">>,
       pos |-> "DET", dep |-> "det", head |-> 7] (* the / the *),
      [text |-> <<"p","a","y","m","e","n","t">>, lemma |-> <<"p","a","y","m","e","n","t">>,
       pos |-> "NOUN", dep |-> "compound", head |-> 7] (* payment / payment *),
      [text |-> <<"s","y","s","t","e","m">>, lemma |-> <<"s","y","s","t","e","m">>,
       pos |-> "NOUN", dep |-> "dobj", head |-> 4] (* system / system *),
      [text |-> <<"f","o","r">>, lemma |-> <<"f","o","r">>,
       pos |-> "ADP", dep |-> "prep", head |-> 4] (* for / for *),
      [text |-> <<"f","r","a","u","d">>, lemma |-> <<"f","r","a","u","d">>,
       pos |-> "NOUN", dep |-> "pobj", head |-> 8] (* fraud / fraud *),
      [text |-> <<".">>, lemma |-> <<".">>,
       pos |-> "PUNCT", dep |-> "punct", head |-> 4] (* . / . *)>>,
    noun_chunks |-> <<
      [text |-> <<"T","h","e"," ","a","d","m","i","n","i","s","t","r","a","t","o","r">>, root |-> 2] (* "The administrator" *),
      [text |-> <<"t","h","e"," ","p","a","y","m","e","n","t"," ","s","y","s","t","e","m">>, root |-> 7] (* "the payment system" *),
      [text |-> <<"f","r","a","u","d">>, root |-> 9] (* "fraud" *)>>,
    ents |-> <<>>]],
  \* 3: "Fix the pump."
  [sentence |-> <<"F","i","x"," ","t","h","e"," ","p","u","m","p",".">>,
   doc |-> [tokens |-> <<
      [text |-> <<"F","i","x">>, lemma |-> <<"f","i","x">>,
       pos |-> "VERB", dep |-> "ROOT", head |-> 1] (* Fix / fix *),
      [text |-> <<"t","h","e">>, lemma |-> <<"t","h","e">>,
       pos |-> "DET", dep |-> "det", head |-> 3] (* the / the *),
      [text |-> <<"p","u","m","p">>, lemma |-> <<"p","u","m","p">>,
       pos |-> "NOUN", dep |-> "dobj", head |-> 1] (* pump / pump *),
      [text |-> <<".">>, lemma |-> <<".">>,
       pos |-> "PUNCT", dep |-> "punct", head |-> 1] (* . / . *)>>,
    noun_chunks |-> <<
      [text |-> <<"t","h","e"," ","p","u","m","p">>, root |-> 3] (* "the pump" *)>>,
    ents |-> <<>>]],
  \* 4: "The weather was nice and sunny today."
  [sentence |-> <<"T","h","e"," ","w","e","a","t","h","e","r"," ","w","a","s"," ","n","i","c","e"," ","a","n","d"," ","s","u","n","n","y"," ","t","o","d","a","y",".">>,
   doc |-> [tokens |-> <<
      [text |-> <<"T","h","e">>, lemma |-> <<"t","h","e">>,
       pos |-> "DET", dep |-> "det", head |-> 2] (* The / the *),
      [text |-> <<"w","e","a","t","h","e","r">>, lemma |-> <<"w","e","a","t","h","e","r">>,
       pos |-> "NOUN", dep |-> "nsubj", head |-> 3] (* weather / weather *),
      [text |-> <<"w","a","s">>, lemma |-> <<"b","e">>,
       pos |-> "AUX", dep |-> "ROOT", head |-> 3] (* was / be *),
      [text |-> <<"n","i","c","e">>, lemma |-> <<"n","i","c","e">>,
       pos |-> "ADJ", dep |-> "acomp", head |-> 3] (* nice / nice *),
      [text |-> <<"a","n","d">>, lemma |-> <<"a","n","d">>,
       pos |-> "CCONJ", dep |-> "cc", head |-> 4] (* and / and *),
      [text |-> <<"s","u","n","n","y">>, lemma |-> <<"s","u","n","n","y">>,
       pos |-> "ADJ", dep |-> "conj", head |-> 4] (* sunny / sunny *),
      [text |-> <<"t","o","d","a","y">>, lemma |-> <<"t","o","d","a","y">>,
       pos |-> "NOUN", dep |-> "npadvmod", head |-> 3] (* today / today *),
      [text |-> <<".">>, lemma |-> <<".">>,
       pos |-> "PUNCT", dep |-> "punct", head |-> 3] (* . / . *)>>,
    noun_chunks |-> <<
      [text |-> <<"T","h","e"," ","w","e","a","t","h","e","r">>, root |-> 2] (* "The weather" *),
      [text |-> <<"t","o","d","a","y">>, root |-> 7] (* "today" *)>>,
    ents |-> <<>>]],
  \* 5: "Owner confirms user can see the bookings online."
  [sentence |-> <<"O","w","n","e","r"," ","c","o","n","f","i","r","m","s"," ","u","s","e","r"," ","c","a","n"," ","s","e","e"," ","t","h","e"," ","b","o","o","k","i","n","g","s"," ","o","n","l","i","n","e",".">>,
   doc |-> [tokens |-> <<
      [text |-> <<"O","w","n","e","r">>, lemma |-> <<"o","w","n","e","r">>,
       pos |-> "NOUN", dep |-> "nsubj", head |-> 2] (* Owner / owner *),
      [text |-> <<"c","o","n","f","i","r","m","s">>, lemma |-> <<"c","o","n","f","i","r","m">>,
       pos |-> "VERB", dep |-> "ROOT", head |-> 2] (* confirms / confirm *),
      [text |-> <<"u","s","e","r">>, lemma |-> <<"u","s","e","r">>,
       pos |-> "NOUN", dep |-> "nsubj", head |-> 5] (* user / user *),
      [text |-> <<"c","a","n">>, lemma |-> <<"c","a","n">>,
       pos |-> "AUX", dep |-> "aux", head |-> 5] (* can / can *),
      [text |-> <<"s","e","e">>, lemma |-> <<"s","e","e">>,
       pos |-> "VERB", dep |-> "ccomp", head |-> 2] (* see / see *),
      [text |-> <<"t","h","e">>, lemma |-> <<"t","h","e">>,
       pos |-> "DET", dep |-> "det", head |-> 7] (* the / the *),
      [text |-> <<"b","o","o","k","i","n","g","s">>, lemma |-> <<"b","o","o","k","i","n","g">>,
       pos |-> "NOUN", dep |-> "dobj", head |-> 5] (* bookings / booking *),
      [text |-> <<"o","n","l","i","n","e">>, lemma |-> <<"o","n","l","i","n","e">>,
       pos |-> "ADV", dep |-> "advmod", head |-> 5] (* online / online *),
      [text |-> <<".">>, lemma |-> <<".">>,
       pos |-> "PUNCT", dep |-> "punct", head |-> 2] (* . / . *)>>,
    noun_chunks |-> <<
      [text |-> <<"O","w","n","e","r">>, root |-> 1] (* "Owner" *),
      [text |-> <<"u","s","e","r">>, root |-> 3] (* "user" *),
      [text |-> <<"t","h","e"," ","b","o","o","k","i","n","g","s">>, root |-> 7] (* "the bookings" *)>>,
    ents |-> <<>>]],
  \* 6: "Admin will generate reports for the owner daily."
  [sentence |-> <<"A","d","m","i","n"," ","w","i","l","l"," ","g","e","n","e","r","a","t","e"," ","r","e","p","o","r","t","s"," ","f","o","r"," ","t","h","e"," ","o","w","n","e","r"," ","d","a","i","l","y",".">>,
   doc |-> [tokens |-> <<
      [text |-> <<"A","d","m","i","n">>, lemma |-> <<"a","d","m","i","n">>,
       pos |-> "NOUN", dep |-> "nsubj", head |-> 3] (* Admin / admin *),
      [text |-> <<"w","i","l","l">>, lemma |-> <<"w","i","l","l">>,
       pos |-> "AUX", dep |-> "aux", head |-> 3] (* will / will *),
      [text |-> <<"g","e","n","e","r","a","t","e">>, lemma |-> <<"g","e","n","e","r","a","t","e">>,
       pos |-> "VERB", dep |-> "ROOT", head |-> 3] (* generate / generate *),
      [text |-> <<"r","e","p","o","r","t","s">>, lemma |-> <<"r","e","p","o","r","t">>,
       pos |-> "NOUN", dep |-> "dobj", head |-> 3] (* reports / report *),
      [text |-> <<"f","o","r">>, lemma |-> <<"f","o","r">>,
       pos |-> "ADP", dep |-> "prep", head |-> 3] (* for / for *),
      [text |-> <<"t","h","e">>, lemma |-> <<"t","h","e">>,
       pos |-> "DET", dep |-> "det", head |-> 7] (* the / the *),
      [text |-> <<"o","w","n","e","r">>, lemma |-> <<"o","w","n","e","r">>,
       pos |-> "NOUN", dep |-> "pobj", head |-> 5] (* owner / owner *),
      [text |-> <<"d","a","i","l","y">>, lemma |-> <<"d","a","i","l","y">>,
       pos |-> "ADV", dep |-> "advmod", head |-> 3] (* daily / daily *),
      [text |-> <<".">>, lemma |-> <<".">>,
       pos |-> "PUNCT", dep |-> "punct", head |-> 3] (* . / . *)>>,
    noun_chunks |-> <<
      [text |-> <<"A","d","m","i","n">>, root |-> 1] (* "Admin" *),
      [text |-> <<"r","e","p","o","r","t","s">>, root |-> 4] (* "reports" *),
      [text |-> <<"t","h","e"," ","o","w","n","e","r">>, root |-> 7] (* "the owner" *)>>,
    ents |-> <<>>]],
  \* 7: "The machine is available for the customer today."
  [sentence |-> <<"T","h","e"," ","m","a","c","h","i","n","e"," ","i","s"," ","a","v","a","i","l","a","b","l","e"," ","f","o","r"," ","t","h","e"," ","c","u","s","t","o","m","e","r"," ","t","o","d","a","y",".">>,
   doc |-> [tokens |-> <<
      [text |-> <<"T","h","e">>, lemma |-> <<"t","h","e">>,
       pos |-> "DET", dep |-> "det", head |-> 2] (* The / the *),
      [text |-> <<"m","a","c","h","i","n","e">>, lemma |-> <<"m","a","c","h","i","n","e">>,
       pos |-> "NOUN", dep |-> "nsubj", head |-> 3] (* machine / machine *),
      [text |-> <<"i","s">>, lemma |-> <<"b","e">>,
       pos |-> "AUX", dep |-> "ROOT", head |-> 3] (* is / be *),
      [text |-> <<"a","v","a","i","l","a","b","l","e">>, lemma |-> <<"a","v","a","i","l","a","b","l","e">>,
       pos |-> "ADJ", dep |-> "acomp", head |-> 3] (* available / available *),
      [text |-> <<"f","o","r">>, lemma |-> <<"f","o","r">>,
       pos |-> "ADP", dep |-> "prep", head |-> 4] (* for / for *),
      [text |-> <<"t","h","e">>, lemma |-> <<"t","h","e">>,
       pos |-> "DET", dep |-> "det", head |-> 7] (* the / the *),
      [text |-> <<"c","u","s","t","o","m","e","r">>, lemma |-> <<"c","u","s","t","o","m","e","r">>,
       pos |-> "NOUN", dep |-> "pobj", head |-> 5] (* customer / customer *),
      [text |-> <<"t","o","d","a","y">>, lemma |-> <<"t","o","d","a","y">>,
       pos |-> "NOUN", dep |-> "npadvmod", head |-> 3] (* today / today *),
      [text |-> <<".">>, lemma |-> <<".">>,
       pos |-> "PUNCT", dep |-> "punct", head |-> 3] (* . / . *)>>,
    noun_chunks |-> <<
      [text |-> <<"T","h","e"," ","m","a","c","h","i","n","e">>, root |-> 2] (* "The machine" *),
      [text |-> <<"t","h","e"," ","c","u","s","t","o","m","e","r">>, root |-> 7] (* "the customer" *),
      [text |-> <<"t","o","d","a","y">>, root |-> 8] (* "today" *)>>,
    ents |-> <<>>]],
  \* 8: "Payments can be made using coins or cards."
  [sentence |-> <<"P","a","y","m","e","n","t","s"," ","c","a","n"," ","b","e"," ","m","a","d","e"," ","u","s","i","n","g"," ","c","o","i","n","s"," ","o","r"," ","c","a","r","d","s",".">>,
   doc |-> [tokens |-> <<
      [text |-> <<"P","a","y","m","e","n","t","s">>, lemma |-> <<"p","a","y","m","e","n","t">>,
       pos |-> "NOUN", dep |-> "nsubjpass", head |-> 4] (* Payments / payment *),
      [text |-> <<"c","a","n">>, lemma |-> <<"c","a","n">>,
       pos |-> "AUX", dep |-> "aux", head |-> 4] (* can / can *),
      [text |-> <<"b","e">>, lemma |-> <<"b","e">>,
       pos |-> "AUX", dep |-> "auxpass", head |-> 4] (* be / be *),
      [text |-> <<"m","a","d","e">>, lemma |-> <<"m","a","k","e">>,
       pos |-> "VERB", dep |-> "ROOT", head |-> 4] (* made / make *),
      [text |-> <<"u","s","i","n","g">>, lemma |-> <<"u","s","e">>,
       pos |-> "VERB", dep |-> "advcl", head |-> 4] (* using / use *),
      [text |-> <<"c","o","i","n","s">>, lemma |-> <<"c","o","i","n">>,
       pos |-> "NOUN", dep |-> "dobj", head |-> 5] (* coins / coin *),
      [text |-> <<"o","r">>, lemma |-> <<"o","r">>,
       pos |-> "CCONJ", dep |-> "cc", head |-> 6] (* or / or *),
      [text |-> <<"c","a","r","d","s">>, lemma |-> <<"c","a","r","d">>,
       pos |-> "NOUN", dep |-> "conj", head |-> 6] (* cards / card *),
      [text |-> <<".">>, lemma |-> <<".">>,
       pos |-> "PUNCT", dep |-> "punct", head |-> 4] (* . / . *)>>,
    noun_chunks |-> <<
      [text |-> <<"P","a","y","m","e","n","t","s">>, root |-> 1] (* "Payments" *),
      [text |-> <<"c","o","i","n","s">>, root |-> 6] (* "coins" *),
      [text |-> <<"c","a","r","d","s">>, root |-> 8] (* "cards" *)>>,
    ents |-> <<>>]],
  \* 9: "Customers must always pay before they start."
  [sentence |-> <<"C","u","s","t","o","m","e","r","s"," ","m","u","s","t"," ","a","l","w","a","y","s"," ","p","a","y"," ","b","e","f","o","r","e"," ","t","h","e","y"," ","s","t","a","r","t",".">>,
   doc |-> [tokens |-> <<
      [text |-> <<"C","u","s","t","o","m","e","r","s">>, lemma |-> <<"c","u","s","t","o","m","e","r">>,
       pos |-> "NOUN", dep |-> "nsubj", head |-> 4] (* Customers / customer *),
      [text |-> <<"m","u","s","t">>, lemma |-> <<"m","u","s","t">>,
       pos |-> "AUX", dep |-> "aux", head |-> 4] (* must / must *),
      [text |-> <<"a","l","w","a","y","s">>, lemma |-> <<"a","l","w","a","y","s">>,
       pos |-> "ADV", dep |-> "advmod", head |-> 4] (* always / always *),
      [text |-> <<"p","a","y">>, lemma |-> <<"p","a","y">>,
       pos |-> "VERB", dep |-> "ROOT", head |-> 4] (* pay / pay *),
      [text |-> <<"b","e","f","o","r","e">>, lemma |-> <<"b","e","f","o","r","e">>,
       pos |-> "SCONJ", dep |-> "mark", head |-> 7] (* before / before *),
      [text |-> <<"t","h","e","y">>, lemma |-> <<"t","h","e","y">>,
       pos |-> "PRON", dep |-> "nsubj", head |-> 7] (* they / they *),
      [text |-> <<"s","t","a","r","t">>, lemma |-> <<"s","t","a","r","t">>,
       pos |-> "VERB", dep |-> "advcl", head |-> 4] (* start / start *),
      [text |-> <<".">>, lemma |-> <<".">>,
       pos |-> "PUNCT", dep |-> "punct", head |-> 4] (* . / . *)>>,
    noun_chunks |-> <<
      [text |-> <<"C","u","s","t","o","m","e","r","s">>, root |-> 1] (* "Customers" *),
      [text |-> <<"t","h","e","y">>, root |-> 6] (* "they" *)>>,
    ents |-> <<>>]]
  >>

\* self.nlp(sentence): a reference to the parse of the sentence
nlp(sentence) == CHOOSE i \in 1..Len(Corpus) : Corpus[i].sentence = sentence

\* the Doc object a reference stands for
Doc(ref) == Corpus[ref].doc

---------------------------------------------------------------------------
(* Segmenter: preprocess_text.  `spans` is what sent_tokenize returns for  *)
(* the whitespace-collapsed text (lines 79-82, external); line 85 is the   *)
(* filter.                                                                 *)

preprocess_text(spans) ==
  LET LongEnough(s) == Len(split(s)) > MinSentenceWords
  IN SelectSeq(spans, LongEnough)

---------------------------------------------------------------------------
(* Feature Extractor: extract_features.                                    *)

\* lines 104-113: one triple per (nsubj chunk under a VERB, dobj/pobj token
\* of that verb), chunks in order, tokens in order
svo_patterns_of(doc) ==
  LET tok == Doc(doc).tokens
      chunks == Doc(doc).noun_chunks
      of_chunk(c) ==
        LET root == tok[chunks[c].root]
            IsObject(t) == tok[t].head = root.head /\ tok[t].dep \in {"dobj", "pobj"}
            objs == SelectSeq(Indices(tok), IsObject)
        IN IF root.dep = "nsubj" /\ tok[root.head].pos = "VERB"
             THEN [k \in 1..Len(objs) |->
                     <<chunks[c].text, tok[root.head].lemma, tok[objs[k]].text>>]
             ELSE <<>>
  IN Flatten([c \in 1..Len(chunks) |-> of_chunk(c)])

\* lines 93-128: the feature record of one sentence
feature_of(sentence) ==
  LET doc == nlp(sentence)
      tok == Doc(doc).tokens
      IsVerb(t) == tok[t].pos = "VERB"
      IsNoun(t) == tok[t].pos = "NOUN"
      IsModal(t) == tok[t].dep = "aux" /\ in_list(lower(tok[t].text), MODALS)
      IsActionVerb(v) == in_list(v, ACTION_VERBS)
      verb_tokens == SelectSeq(Indices(tok), IsVerb)
      noun_tokens == SelectSeq(Indices(tok), IsNoun)
      modal_tokens == SelectSeq(Indices(tok), IsModal)
      verbs == [k \in 1..Len(verb_tokens) |-> tok[verb_tokens[k]].lemma]
  IN [sentence |-> sentence,
      verbs |-> verbs,
      action_verbs |-> SelectSeq(verbs, IsActionVerb),
      nouns |-> [k \in 1..Len(noun_tokens) |-> tok[noun_tokens[k]].text],
      entities |-> [k \in 1..Len(Doc(doc).ents) |-> Doc(doc).ents[k].text],
      svo_patterns |-> svo_patterns_of(doc),
      modals |-> [k \in 1..Len(modal_tokens) |-> tok[modal_tokens[k]].text],
      doc |-> doc]

extract_features(sents) == [i \in 1..Len(sents) |-> feature_of(sents[i])]

---------------------------------------------------------------------------
(* Requirement Scorer: identify_potential_requirements.                    *)

\* lines 136-163
score_of(feature) ==
    (IF feature.action_verbs # <<>> THEN Len(feature.action_verbs) * 2 ELSE 0)
  + (IF feature.modals # <<>> THEN Len(feature.modals) * 3 ELSE 0)
  + (IF feature.svo_patterns # <<>> THEN Len(feature.svo_patterns) * 2 ELSE 0)
  + (IF any_in(requirement_keywords, lower(feature.sentence)) THEN 3 ELSE 0)
  + (IF any_in(system_components, lower(feature.sentence)) THEN 2 ELSE 0)
  + (IF any_in(user_roles, lower(feature.sentence)) THEN 2 ELSE 0)

\* line 166: feature["req_score"] = score
with_score(feature) ==
  [k \in DOMAIN feature \cup {"req_score"} |->
     IF k = "req_score" THEN score_of(feature) ELSE feature[k]]

\* lines 135-167: every record, scored, in extraction order
scored(feats) == [i \in 1..Len(feats) |-> with_score(feats[i])]

\* a sort that puts the later of two equally scored records first
RECURSIVE sort_ties_reversed(_)
sort_ties_reversed(reqs) ==
  IF reqs = <<>> THEN <<>>
  ELSE LET x == reqs[Len(reqs)]
           rest == sort_ties_reversed(SubSeq(reqs, 1, Len(reqs) - 1))
           k == Cardinality({i \in 1..Len(rest) : rest[i].req_score > x.req_score})
       IN SubSeq(rest, 1, k) \o <<x>> \o SubSeq(rest, k + 1, Len(rest))

\* line 170: list.sort(key=req_score, reverse=True); Python's sort is stable,
\* also under reverse=True, so a record goes behind every earlier record
\* whose score is at least its own
RECURSIVE sort_by_score(_)
sort_by_score(reqs) ==
  IF reqs = <<>> THEN <<>>
  ELSE LET x == reqs[Len(reqs)]
           rest == sort_by_score(SubSeq(reqs, 1, Len(reqs) - 1))
           k == Cardinality({i \in 1..Len(rest) : rest[i].req_score >= x.req_score})
       IN SubSeq(rest, 1, k) \o <<x>> \o SubSeq(rest, k + 1, Len(rest))

\* lines 132-171
identify_potential_requirements(feats) ==
  LET Kept(req) == req.req_score > ScoreThreshold
  IN SelectSeq(sort_by_score(scored(feats)), Kept)

---------------------------------------------------------------------------
(* Requirement Formulator: formulate_requirements.                         *)

chunk_dep(doc, c) == Doc(doc).tokens[Doc(doc).noun_chunks[c].root].dep

\* chunk.text of the c-th noun chunk
chunk_text(doc, c) == Doc(doc).noun_chunks[c].text

\* the noun chunks of a parse, by position
chunks_of(doc) == Indices(Doc(doc).noun_chunks)

\* the texts of the noun chunks whose root's dep_ is in deps, in order
chunk_texts(doc, deps) ==
  LET Wanted(c) == chunk_dep(doc, c) \in deps
      cs == SelectSeq(chunks_of(doc), Wanted)
  IN [k \in 1..Len(cs) |-> chunk_text(doc, cs[k])]

\* lines 180-183
actors_of(req) == chunk_texts(req.doc, {"nsubj"})

\* a primary actor chosen by looking for the role word inside the chunk text
primary_actor_substring(actors) ==
  IF \E i \in 1..Len(actors) :
       actors[i] # <<>> /\ any_in(customer_actors, lower(actors[i]))
    THEN <<"T","h","e"," ","c","u","s","t","o","m","e","r">> (* "The customer" *)
  ELSE IF \E i \in 1..Len(actors) :
       actors[i] # <<>> /\ any_in(administrator_actors, lower(actors[i]))
    THEN <<"T","h","e"," ","a","d","m","i","n","i","s","t","r","a","t","o","r">> (* "The administrator" *)
  ELSE <<"T","h","e"," ","s","y","s","t","e","m">> (* "The system" *)

\* a primary actor chosen with the administrator test first
primary_actor_admin_first(actors) ==
  IF \E i \in 1..Len(actors) :
       actors[i] # <<>> /\ in_list(lower(actors[i]), administrator_actors)
    THEN <<"T","h","e"," ","a","d","m","i","n","i","s","t","r","a","t","o","r">> (* "The administrator" *)
  ELSE IF \E i \in 1..Len(actors) :
       actors[i] # <<>> /\ in_list(lower(actors[i]), customer_actors)
    THEN <<"T","h","e"," ","c","u","s","t","o","m","e","r">> (* "The customer" *)
  ELSE <<"T","h","e"," ","s","y","s","t","e","m">> (* "The system" *)

\* lines 186-191
primary_actor_of(actors) ==
  IF \E i \in 1..Len(actors) :
       actors[i] # <<>> /\ in_list(lower(actors[i]), customer_actors)
    THEN <<"T","h","e"," ","c","u","s","t","o","m","e","r">> (* "The customer" *)
  ELSE IF \E i \in 1..Len(actors) :
       actors[i] # <<>> /\ in_list(lower(actors[i]), administrator_actors)
    THEN <<"T","h","e"," ","a","d","m","i","n","i","s","t","r","a","t","o","r">> (* "The administrator" *)
  ELSE <<"T","h","e"," ","s","y","s","t","e","m">> (* "The system" *)

\* line 194
actions_of(req) == IF req.action_verbs # <<>> THEN req.action_verbs ELSE req.verbs

\* line 195
action_of(req) == IF actions_of(req) # <<>> THEN actions_of(req)[1] ELSE <<"s","u","p","p","o","r","t">> (* "support" *)

\* lines 198-201
objects_of(req) == chunk_texts(req.doc, {"dobj", "pobj"})

\* lines 204-211: the draft before the context is appended
draft_of(req) ==
  LET actors == actors_of(req)
      objects == objects_of(req)
      head == primary_actor_of(actors) \o <<" ","s","h","a","l","l"," ">> (* " shall " *) \o action_of(req) \o <<" ">>
      requirement ==
        IF actors # <<>> /\ actions_of(req) # <<>> /\ objects # <<>>
          THEN head \o objects[1]
          ELSE head \o lower(req.sentence)
  IN strip(replace(requirement, <<" "," ">> (* "  " *), <<" ">>))

\* lines 214-217: " for <chunk>" for every pobj chunk not yet in the draft,
\* as long as the draft does not end with a period
add_context(doc, draft) ==
  LET RECURSIVE go(_, _)
      go(c, requirement) ==
        IF c > Len(chunks_of(doc)) THEN requirement
        ELSE IF /\ chunk_dep(doc, c) \in {"pobj"}
                /\ ~contains(requirement, chunk_text(doc, c))
                /\ ~endswith(requirement, <<".">>)
          THEN go(c + 1, requirement \o <<" ","f","o","r"," ">> (* " for " *) \o chunk_text(doc, c))
          ELSE go(c + 1, requirement)
  IN go(1, draft)

\* lines 176-219, one candidate
formulate(req) == add_context(req.doc, draft_of(req))

\* lines 173-221
formulate_requirements(reqs) == [i \in 1..Len(reqs) |-> formulate(reqs[i])]

---------------------------------------------------------------------------
(* Refiner: refine_requirements.                                           *)

\* line 230: the comparison key
simple_req(req) == strip_non_alnum(lower(req))

\* lines 225-235: first occurrence of each key, among drafts of > 4 words
unique_reqs(reqs) ==
  LET RECURSIVE go(_, _)
      go(i, seen) ==
        IF i > Len(reqs) THEN <<>>
        ELSE IF /\ simple_req(reqs[i]) \notin seen
                /\ Len(split(reqs[i])) > MinDraftWords
          THEN <<reqs[i]>> \o go(i + 1, seen \cup {simple_req(reqs[i])})
          ELSE go(i + 1, seen)
  IN go(1, {})

\* line 241
has_lead_phrase(req) ==
  \E p \in 1..Len(lead_phrases) : startswith(lower(req), lead_phrases[p])

\* lines 249-251
fix_common_issues(req) ==
  replace(replace(replace(req,
      <<" ","s","h","o","u","l","d"," ","b","e"," ","a","b","l","e"," ","t","o"," ","b","e"," ","a","b","l","e"," ","t","o"," ">> (* " should be able to be able to " *), <<" ","s","h","o","u","l","d"," ","b","e"," ","a","b","l","e"," ","t","o"," ">> (* " should be able to " *)),
      <<" ","s","h","o","u","l","d"," ","s","h","o","u","l","d"," ">> (* " should should " *), <<" ","s","h","o","u","l","d"," ">> (* " should " *)),
      <<" ","s","h","a","l","l"," ","s","h","a","l","l"," ">> (* " shall shall " *), <<" ","s","h","a","l","l"," ">> (* " shall " *))

\* a normalisation that forgets the period of a draft it did not prefix
normalize_period_only_when_prefixed(req) ==
  IF ~has_lead_phrase(req)
    THEN fix_common_issues(<<"T","h","e"," ","s","y","s","t","e","m"," ","s","h","a","l","l"," ">> (* "The system shall " *) \o req \o
                             (IF endswith(req, <<".">>) THEN <<>> ELSE <<".">>))
    ELSE fix_common_issues(req)

\* a normalisation that accepts every draft as it is phrased
normalize_without_prefix(req) ==
  fix_common_issues(IF endswith(req, <<".">>) THEN req ELSE req \o <<".">>)

\* lines 239-253, one draft
normalize(req) ==
  LET prefixed == IF ~has_lead_phrase(req) THEN <<"T","h","e"," ","s","y","s","t","e","m"," ","s","h","a","l","l"," ">> (* "The system shall " *) \o req ELSE req
      ended == IF ~endswith(prefixed, <<".">>) THEN prefixed \o <<".">> ELSE prefixed
  IN fix_common_issues(ended)

\* lines 223-255
refine_requirements(reqs) ==
  LET unique == unique_reqs(reqs)
  IN [i \in 1..Len(unique) |-> normalize(unique[i])]

---------------------------------------------------------------------------
(* Classifier: classify_requirements, and the grouping of                  *)
(* extract_and_format.                                                     *)

has_customer_word(text) ==
  contains(text, <<"c","u","s","t","o","m","e","r">> (* "customer" *)) \/ contains(text, <<"c","l","i","e","n","t">> (* "client" *)) \/ contains(text, <<"u","s","e","r">> (* "user" *))

has_administrator_word(text) ==
  \/ contains(text, <<"a","d","m","i","n","i","s","t","r","a","t","o","r">> (* "administrator" *))
  \/ contains(text, <<"a","d","m","i","n">> (* "admin" *))
  \/ contains(text, <<"o","w","n","e","r">> (* "owner" *))

\* a stakeholder chosen with the administrator test first
stakeholder_admin_first(req) ==
  IF has_administrator_word(lower(req)) THEN "Administrator"
  ELSE IF has_customer_word(lower(req)) THEN "Customer"
  ELSE "System"

\* lines 264-268
stakeholder_of(req) ==
  IF has_customer_word(lower(req)) THEN "Customer"
  ELSE IF has_administrator_word(lower(req)) THEN "Administrator"
  ELSE "System"

\* lines 271-274
type_of(req) ==
  IF any_in(non_functional_keywords, lower(req)) THEN "Non-functional" ELSE "Functional"

\* lines 277-293
categories_of(req) ==
  LET Hit(c) == any_in(category_keywords[c].keywords, lower(req))
      hits == SelectSeq(Indices(category_keywords), Hit)
  IN IF hits = <<>> THEN <<"General">>
     ELSE [k \in 1..Len(hits) |-> category_keywords[hits[k]].category]

\* lines 257-302 (the parse of line 261 is not used)
classify_requirements(reqs) ==
  [i \in 1..Len(reqs) |->
     [requirement |-> reqs[i],
      stakeholder |-> stakeholder_of(reqs[i]),
      type |-> type_of(reqs[i]),
      categories |-> categories_of(reqs[i])]]

\* the requirement texts of one stakeholder, in order
texts_of(classified, stakeholder) ==
  LET Mine(c) == c.stakeholder = stakeholder
      mine == SelectSeq(classified, Mine)
  IN [k \in 1..Len(mine) |-> mine[k].requirement]

\* a grouping that lists the administrator's requirements first
group_admin_first(classified) ==
  texts_of(classified, "Administrator") \o texts_of(classified, "Customer")
    \o texts_of(classified, "System")

\* lines 311-329
group_by_stakeholder(classified) ==
  texts_of(classified, "Customer") \o texts_of(classified, "Administrator")
    \o texts_of(classified, "System")

---------------------------------------------------------------------------
(* The inputs.                                                             *)

\* the sentences of the corpus, as sent_tokenize's spans
Spans == {Corpus[i].sentence : i \in 1..Len(Corpus)}

SeqsUpTo(S, n) == UNION {[1..k -> S] : k \in 0..n}

\* drafts a caller may hand to refine_requirements
Drafts ==
  { <<"b","o","o","k"," ","a"," ","w","a","s","h","i","n","g"," ","m","a","c","h","i","n","e"," ","n","o","w"," ","p","l","e","a","s","e">> (* "book a washing machine now please" *),
    <<"T","h","e"," ","s","y","s","t","e","m"," ","s","h","a","l","l"," ","b","o","o","k"," ","a"," ","w","a","s","h","i","n","g"," ","m","a","c","h","i","n","e"," ","n","o","w"," ","p","l","e","a","s","e">> (* "The system shall book a washing machine now please" *),
    <<"B","o","o","k"," ","a"," ","w","a","s","h","i","n","g","-","m","a","c","h","i","n","e",","," ","n","o","w"," ","p","l","e","a","s","e",".">> (* "Book a washing-machine, now please." *),
    <<"T","h","e"," ","s","y","s","t","e","m"," ","s","h","a","l","l"," ","s","h","a","l","l"," ","p","a","y">> (* "The system shall shall pay" *),
    <<"T","h","e"," ","c","u","s","t","o","m","e","r"," ","s","h","o","u","l","d"," ","s","h","o","u","l","d"," ","p","a","y">> (* "The customer should should pay" *),
    <<"T","h","e"," ","c","u","s","t","o","m","e","r"," ","s","h","o","u","l","d"," ","b","e"," ","a","b","l","e"," ","t","o"," ","b","e"," ","a","b","l","e"," ","t","o"," ","p","a","y"," ","f","e","e","s">> (* "The customer should be able to be able to pay fees" *),
    <<"T","h","e"," ","a","d","m","i","n","i","s","t","r","a","t","o","r"," ","s","h","o","u","l","d"," ","r","e","v","i","e","w"," ","a","l","l"," ","t","h","e"," ","f","e","e","d","b","a","c","k",".">> (* "The administrator should review all the feedback." *),
    <<"p","a","y"," ","t","h","e"," ","f","e","e"," ","n","o","w">> (* "pay the fee now" *),
    <<"T","h","e"," ","c","u","s","t","o","m","e","r"," ","s","h","a","l","l"," ","p","a","y"," ","t","h","e"," ","o","w","n","e","r">> (* "The customer shall pay the owner" *),
    <<"T","H","E"," ","S","Y","S","T","E","M"," ","S","H","A","L","L"," ","t","r","a","c","k"," ","p","e","r","f","o","r","m","a","n","c","e"," ","l","o","g","s">> (* "THE SYSTEM SHALL track performance logs" *),
    <<"t","h","e"," ","s","y","s","t","e","m"," ","s","h","a","l","l"," ","p","a","y">> (* "the system shall pay" *),
    <<"x"," ","s","h","a","l","l"," ","s","h","a","l","l"," ","p","a","y"," ","t","h","e"," ","f","e","e">> (* "x shall shall pay the fee" *),
    <<"x"," ","s","h","a","l","l"," ","p","a","y"," ","t","h","e"," ","f","e","e">> (* "x shall pay the fee" *),
    <<>>,
    <<"u","p","d","a","t","e"," ","a","l","l"," ","t","h","e"," ","s","t","a","t","u","s"," ","d","i","s","p","l","a","y","s"," ","t","o","d","a","y">> (* "update all the status displays today" *),
    <<"p","a","y","","t","h","e"," ","f","e","e"," ","n","o","w"," ","p","l","e","a","s","e">> (* "pay\x0bthe fee now please" *),
    <<"l","o","g","\r","t","h","e"," ","f","e","e","\f","n","o","w"," ","p","l","e","a","s","e">> (* "log\rthe fee\fnow please" *),
    <<"T","h","e"," ","s","y","s","t","e","m"," ","s","h","a","l","l","o","w"," ","w","a","t","e","r"," ","p","u","m","p"," ","w","o","r","k","s">> (* "The system shallow water pump works" *) }

---------------------------------------------------------------------------
(* The pipeline: extract_and_format(description) calls                     *)
(* extract_requirements, which runs the six stages in order (lines 58-75), *)
(* and then groups the result (lines 311-329).                             *)

Init ==
  /\ pc = "preprocess_text"
  /\ description \in SeqsUpTo(Spans, MaxSents)
  /\ sentences = <<>>
  /\ features = <<>>
  /\ potential_reqs = <<>>
  /\ formulated_reqs = <<>>
  /\ refined_reqs = <<>>
  /\ classified_reqs = <<>>
  /\ formatted_reqs = <<>>

\* line 58
PreprocessText ==
  /\ pc = "preprocess_text"
  /\ sentences' = preprocess_text(description)
  /\ pc' = "extract_features"
  /\ UNCHANGED <<description, features, potential_reqs, formulated_reqs,
                 refined_reqs, classified_reqs, formatted_reqs>>

\* line 61
ExtractFeatures ==
  /\ pc = "extract_features"
  /\ features' = extract_features(sentences)
  /\ pc' = "identify_potential_requirements"
  /\ UNCHANGED <<description, sentences, potential_reqs, formulated_reqs,
                 refined_reqs, classified_reqs, formatted_reqs>>

\* line 64; the Scorer writes req_score into the feature records themselves
IdentifyPotentialRequirements ==
  /\ pc = "identify_potential_requirements"
  /\ features' = scored(features)
  /\ potential_reqs' = identify_potential_requirements(features)
  /\ pc' = "formulate_requirements"
  /\ UNCHANGED <<description, sentences, formulated_reqs, refined_reqs,
                 classified_reqs, formatted_reqs>>

\* line 67
FormulateRequirements ==
  /\ pc = "formulate_requirements"
  /\ formulated_reqs' = formulate_requirements(potential_reqs)
  /\ pc' = "refine_requirements"
  /\ UNCHANGED <<description, sentences, features, potential_reqs, refined_reqs,
                 classified_reqs, formatted_reqs>>

\* line 70
RefineRequirements ==
  /\ pc = "refine_requirements"
  /\ refined_reqs' = refine_requirements(formulated_reqs)
  /\ pc' = "classify_requirements"
  /\ UNCHANGED <<description, sentences, features, potential_reqs, formulated_reqs,
                 classified_reqs, formatted_reqs>>

\* lines 73-75
ClassifyRequirements ==
  /\ pc = "classify_requirements"
  /\ classified_reqs' = classify_requirements(refined_reqs)
  /\ pc' = "group"
  /\ UNCHANGED <<description, sentences, features, potential_reqs, formulated_reqs,
                 refined_reqs, formatted_reqs>>

\* lines 311-329
GroupByStakeholder ==
  /\ pc = "group"
  /\ formatted_reqs' = group_by_stakeholder(classified_reqs)
  /\ pc' = "done"
  /\ UNCHANGED <<description, sentences, features, potential_reqs, formulated_reqs,
                 refined_reqs, classified_reqs>>

Next ==
  \/ PreprocessText
  \/ ExtractFeatures
  \/ IdentifyPotentialRequirements
  \/ FormulateRequirements
  \/ RefineRequirements
  \/ ClassifyRequirements
  \/ GroupByStakeholder

Spec == Init /\ [][Next]_vars

(* The Refiner and the Classifier as functions of their own: any list of   *)
(* drafts is refined, the result classified and grouped.                   *)

InitDrafts ==
  /\ pc = "refine_requirements"
  /\ formulated_reqs \in SeqsUpTo(Drafts, MaxDrafts)
  /\ description = <<>>
  /\ sentences = <<>>
  /\ features = <<>>
  /\ potential_reqs = <<>>
  /\ refined_reqs = <<>>
  /\ classified_reqs = <<>>
  /\ formatted_reqs = <<>>

NextDrafts ==
  \/ RefineRequirements
  \/ ClassifyRequirements
  \/ GroupByStakeholder

SpecDrafts == InitDrafts /\ [][NextDrafts]_vars

---------------------------------------------------------------------------
(* Where the run of extract_requirements (lines 58-75) has got to.         *)

\* line 64 has returned
Scored ==
  pc \notin {"preprocess_text", "extract_features", "identify_potential_requirements"}

\* line 67 has returned
Formulated == Scored /\ pc # "formulate_requirements"

\* line 70 has returned
Refined == pc \in {"classify_requirements", "group", "done"}

\* line 73 has returned
Classified == pc \in {"group", "done"}

---------------------------------------------------------------------------
(* The properties.                                                         *)

\* C1: the Scorer returns exactly the records whose score is > 3, in
\* non-increasing order of score, and records of equal score keep the order
\* they have in the input.
C1_ScorerKeepsSortsStably ==
  Scored =>
    LET Kept(f) == f.req_score > 3
        kept == SelectSeq(features, Kept)
        scores == {features[i].req_score : i \in 1..Len(features)}
        with(s, v) == LET Has(f) == f.req_score = v IN SelectSeq(s, Has)
    IN /\ Len(potential_reqs) = Len(kept)
       /\ \A i \in 1..Len(potential_reqs) : potential_reqs[i].req_score > 3
       /\ \A i, j \in 1..Len(potential_reqs) :
            i < j => potential_reqs[i].req_score >= potential_reqs[j].req_score
       /\ \A v \in scores : with(potential_reqs, v) = with(kept, v)

\* C1 witness: two different records of equal score were kept, and the
\* sort changed the order of the kept records.
C1_Witness ==
  /\ Scored
  /\ \E i, j \in 1..Len(potential_reqs) :
       /\ i < j
       /\ potential_reqs[i].req_score = potential_reqs[j].req_score
       /\ potential_reqs[i] # potential_reqs[j]
  /\ LET Kept(f) == f.req_score > 3
     IN potential_reqs # SelectSeq(features, Kept)

\* C2: no two elements of the Refiner's output have equal keys (every
\* non-alphanumeric character removed, lowercased), the keys being taken of
\* the final output elements.
C2_NoEqualKeysInOutput ==
  Refined =>
    \A i, j \in 1..Len(refined_reqs) :
      i < j => strip_non_alnum(lower(refined_reqs[i])) #
               strip_non_alnum(lower(refined_reqs[j]))

\* C3: every element of the Refiner's output has at least 5
\* whitespace-delimited words in its final form.
C3_AtLeastFiveWords ==
  Refined => \A i \in 1..Len(refined_reqs) : Len(split(refined_reqs[i])) >= 5

\* C4: every element of the Refiner's output ends with "." and, lowercased,
\* starts with one of the three approved lead phrases, the literal fix-ups
\* included.
C4_PeriodAndLeadPhrase ==
  Refined =>
    \A i \in 1..Len(refined_reqs) :
      /\ endswith(refined_reqs[i], <<".">>)
      /\ \/ startswith(lower(refined_reqs[i]), <<"t","h","e"," ","s","y","s","t","e","m"," ","s","h","a","l","l">> (* "the system shall" *))
         \/ startswith(lower(refined_reqs[i]), <<"t","h","e"," ","c","u","s","t","o","m","e","r"," ","s","h","o","u","l","d">> (* "the customer should" *))
         \/ startswith(lower(refined_reqs[i]), <<"t","h","e"," ","a","d","m","i","n","i","s","t","r","a","t","o","r"," ","s","h","o","u","l","d">> (* "the administrator should" *))

\* C4 witness: the Refiner has prefixed and ended one draft, and applied a
\* fix-up to another that came with an approved lead phrase.
C4_Witness ==
  /\ pc = "classify_requirements"
  /\ Len(refined_reqs) = 2
  /\ \E i, j \in 1..Len(formulated_reqs) :
       /\ ~startswith(lower(formulated_reqs[i]), <<"t","h","e"," ">> (* "the " *))
       /\ ~endswith(formulated_reqs[i], <<".">>)
       /\ refined_reqs[1] = <<"T","h","e"," ","s","y","s","t","e","m"," ","s","h","a","l","l"," ">> (* "The system shall " *) \o formulated_reqs[i] \o <<".">>
       /\ startswith(formulated_reqs[j], <<"T","h","e"," ","c","u","s","t","o","m","e","r"," ","s","h","o","u","l","d"," ","s","h","o","u","l","d"," ">> (* "The customer should should " *))
       /\ refined_reqs[2] # formulated_reqs[j] \o <<".">>

\* C5 as stated: the scenario yields two candidates of score >= 7, drafts
\* beginning "The customer shall book" and "The administrator shall monitor"
\* that the Refiner only ends with ".", classified Customer / Functional /
\* {Scheduling, Washing/Drying} and Administrator / Functional / {Payment},
\* the customer requirement first.
C5_ScenarioAsStated ==
  (pc = "done" /\ description = <<Corpus[1].sentence, Corpus[2].sentence>>) =>
    /\ Len(potential_reqs) = 2
    /\ \A i \in 1..2 : potential_reqs[i].req_score >= 7
    /\ Len(formulated_reqs) = 2
    /\ startswith(formulated_reqs[1], <<"T","h","e"," ","c","u","s","t","o","m","e","r"," ","s","h","a","l","l"," ","b","o","o","k">> (* "The customer shall book" *))
    /\ startswith(formulated_reqs[2], <<"T","h","e"," ","a","d","m","i","n","i","s","t","r","a","t","o","r"," ","s","h","a","l","l"," ","m","o","n","i","t","o","r">> (* "The administrator shall monitor" *))
    /\ refined_reqs = [i \in 1..2 |-> formulated_reqs[i] \o <<".">>]
    /\ Len(classified_reqs) = 2
    /\ classified_reqs[1].stakeholder = "Customer"
    /\ classified_reqs[1].type = "Functional"
    /\ Range(classified_reqs[1].categories) = {"Scheduling", "Washing/Drying"}
    /\ classified_reqs[2].stakeholder = "Administrator"
    /\ classified_reqs[2].type = "Functional"
    /\ Range(classified_reqs[2].categories) = {"Payment"}
    /\ formatted_reqs = refined_reqs

\* C5, amended: the scenario yields two candidates of score >= 7; the
\* drafts are "The system shall book a washing machine" and "The system
\* shall monitor the payment system for fraud"; the Refiner only ends them
\* with "."; both are classified System / Functional, with categories
\* Washing/Drying, Scheduling and Security, Payment; the book requirement
\* comes first.
C5_ScenarioAsComputed ==
  (pc = "done" /\ description = <<Corpus[1].sentence, Corpus[2].sentence>>) =>
    /\ Len(potential_reqs) = 2
    /\ \A i \in 1..2 : potential_reqs[i].req_score >= 7
    /\ formulated_reqs =
         << <<"T","h","e"," ","s","y","s","t","e","m"," ","s","h","a","l","l"," ","b","o","o","k"," ","a"," ","w","a","s","h","i","n","g"," ","m","a","c","h","i","n","e">> (* "The system shall book a washing machine" *),
            <<"T","h","e"," ","s","y","s","t","e","m"," ","s","h","a","l","l"," ","m","o","n","i","t","o","r"," ","t","h","e"," ","p","a","y","m","e","n","t"," ","s","y","s","t","e","m"," ","f","o","r"," ","f","r","a","u","d">> (* "The system shall monitor the payment system for fraud" *) >>
    /\ refined_reqs = [i \in 1..2 |-> formulated_reqs[i] \o <<".">>]
    /\ Len(classified_reqs) = 2
    /\ classified_reqs[1].requirement = refined_reqs[1]
    /\ classified_reqs[1].stakeholder = "System"
    /\ classified_reqs[1].type = "Functional"
    /\ classified_reqs[1].categories = <<"Washing/Drying", "Scheduling">>
    /\ classified_reqs[2].requirement = refined_reqs[2]
    /\ classified_reqs[2].stakeholder = "System"
    /\ classified_reqs[2].type = "Functional"
    /\ classified_reqs[2].categories = <<"Security", "Payment">>
    /\ formatted_reqs = refined_reqs

\* C5 witness: extract_and_format has returned for the scenario's
\* description.
C5_Witness ==
  /\ pc = "done"
  /\ description = <<Corpus[1].sentence, Corpus[2].sentence>>
  /\ Len(formatted_reqs) = 2

\* C6: extract_and_format returns the requirement texts of
\* extract_requirements, none lost or duplicated: Customer texts first, then
\* Administrator, then System, each group in the order of
\* extract_requirements.  (The text at index i goes behind every text of an
\* earlier group and every earlier text of its own group.)
C6_GroupingIsOrderedPermutation ==
  pc = "done" =>
    LET n == Len(classified_reqs)
        rank(i) == CASE classified_reqs[i].stakeholder = "Customer" -> 1
                     [] classified_reqs[i].stakeholder = "Administrator" -> 2
                     [] classified_reqs[i].stakeholder = "System" -> 3
        place(i) == Cardinality({j \in 1..n : rank(j) < rank(i)})
                      + Cardinality({j \in 1..i : rank(j) = rank(i)})
    IN /\ Len(formatted_reqs) = n
       /\ \A i \in 1..n : formatted_reqs[place(i)] = classified_reqs[i].requirement

\* C6 witness: the grouping moved a text forward, past two texts of one
\* other group.
C6_Witness ==
  /\ pc = "done"
  /\ Len(classified_reqs) = 3
  /\ classified_reqs[1].stakeholder = classified_reqs[2].stakeholder
  /\ classified_reqs[1].requirement # classified_reqs[2].requirement
  /\ classified_reqs[1].stakeholder \in {"Administrator", "System"}
  /\ classified_reqs[3].stakeholder = "Customer"
  /\ formatted_reqs[1] = classified_reqs[3].requirement

\* C7: the Formulator returns one non-empty draft per candidate, starting
\* with "The customer", "The administrator" or "The system", and with "The
\* customer" whenever some nsubj chunk lowercases to customer, client or
\* user, whatever the other chunks are.
C7_OneDraftPerCandidate ==
  Formulated =>
    /\ Len(formulated_reqs) = Len(potential_reqs)
    /\ \A i \in 1..Len(formulated_reqs) :
         LET doc == Doc(potential_reqs[i].doc)
             customer_like ==
               \E c \in 1..Len(doc.noun_chunks) :
                 /\ doc.tokens[doc.noun_chunks[c].root].dep = "nsubj"
                 /\ lower(doc.noun_chunks[c].text) \in
                      { <<"c","u","s","t","o","m","e","r">> (* "customer" *), <<"c","l","i","e","n","t">> (* "client" *), <<"u","s","e","r">> (* "user" *) }
         IN /\ formulated_reqs[i] # <<>>
            /\ \/ startswith(formulated_reqs[i], <<"T","h","e"," ","c","u","s","t","o","m","e","r">> (* "The customer" *))
               \/ startswith(formulated_reqs[i], <<"T","h","e"," ","a","d","m","i","n","i","s","t","r","a","t","o","r">> (* "The administrator" *))
               \/ startswith(formulated_reqs[i], <<"T","h","e"," ","s","y","s","t","e","m">> (* "The system" *))
            /\ customer_like => startswith(formulated_reqs[i], <<"T","h","e"," ","c","u","s","t","o","m","e","r">> (* "The customer" *))

\* C7 witness: a candidate with an administrator-like nsubj chunk before a
\* customer-like one has been formulated.
C7_Witness ==
  /\ Formulated
  /\ \E i \in 1..Len(potential_reqs) :
       LET doc == Doc(potential_reqs[i].doc)
       IN \E a, c \in 1..Len(doc.noun_chunks) :
            /\ a < c
            /\ doc.tokens[doc.noun_chunks[a].root].dep = "nsubj"
            /\ doc.tokens[doc.noun_chunks[c].root].dep = "nsubj"
            /\ lower(doc.noun_chunks[a].text) = <<"o","w","n","e","r">> (* "owner" *)
            /\ lower(doc.noun_chunks[c].text) = <<"u","s","e","r">> (* "user" *)

\* C8: the Classifier gives every refined text one stakeholder (Customer
\* before Administrator, System when neither word occurs), one type, and a
\* non-empty category list in taxonomy order, which is <<"General">> exactly
\* when no taxonomy keyword is a substring of the lowercased text.
C8_Classification ==
  Classified =>
    /\ Len(classified_reqs) = Len(refined_reqs)
    /\ \A i \in 1..Len(classified_reqs) :
         LET c == classified_reqs[i]
             text == lower(c.requirement)
             customer == \E w \in { <<"c","u","s","t","o","m","e","r">> (* "customer" *), <<"c","l","i","e","n","t">> (* "client" *), <<"u","s","e","r">> (* "user" *) } :
                           contains(text, w)
             administrator == \E w \in { <<"a","d","m","i","n","i","s","t","r","a","t","o","r">> (* "administrator" *), <<"a","d","m","i","n">> (* "admin" *), <<"o","w","n","e","r">> (* "owner" *) } :
                                contains(text, w)
             matched == {k \in 1..Len(category_keywords) :
                           \E w \in Range(category_keywords[k].keywords) :
                             contains(text, w)}
             taxonomy == <<"Washing/Drying", "Security", "Scheduling", "Payment",
                           "Reporting", "Communication", "Feedback">>
             at(name) == CHOOSE k \in 1..Len(taxonomy) : taxonomy[k] = name
         IN /\ c.requirement = refined_reqs[i]
            /\ c.stakeholder \in {"Customer", "Administrator", "System"}
            /\ customer => c.stakeholder = "Customer"
            /\ (~customer /\ administrator) => c.stakeholder = "Administrator"
            /\ (~customer /\ ~administrator) => c.stakeholder = "System"
            /\ c.type \in {"Functional", "Non-functional"}
            /\ c.categories # <<>>
            /\ (c.categories = <<"General">>) <=> (matched = {})
            /\ matched # {} =>
                 /\ Range(c.categories) = {taxonomy[k] : k \in matched}
                 /\ \A a, b \in 1..Len(c.categories) :
                      a < b => at(c.categories[a]) < at(c.categories[b])

\* C8 witness: a text with a customer word and an administrator word, and
\* a text without any taxonomy keyword, have been classified.
C8_Witness ==
  /\ Classified
  /\ \E i, j \in 1..Len(classified_reqs) :
       /\ contains(lower(classified_reqs[i].requirement), <<"c","u","s","t","o","m","e","r">> (* "customer" *))
       /\ contains(lower(classified_reqs[i].requirement), <<"o","w","n","e","r">> (* "owner" *))
       /\ classified_reqs[i].stakeholder = "Customer"
       /\ classified_reqs[j].categories = <<"General">>

\* C9: whenever the actors and the objects of a candidate are both
\* non-empty, the draft before the context is appended is "<primary actor>
\* shall <action> <objects[0]>", the action being the first action verb, else
\* the first verb, else "support"; the fallback is used only when actors or
\* objects is empty.
C9_TemplateWheneverActorsAndObjects ==
  Formulated =>
    \A i \in 1..Len(potential_reqs) :
      LET req == potential_reqs[i]
          action == IF req.action_verbs # <<>> THEN req.action_verbs[1]
                    ELSE IF req.verbs # <<>> THEN req.verbs[1]
                    ELSE <<"s","u","p","p","o","r","t">> (* "support" *)
          template == primary_actor_of(actors_of(req)) \o <<" ","s","h","a","l","l"," ">> (* " shall " *) \o action
                        \o <<" ">> \o objects_of(req)[1]
      IN (actors_of(req) # <<>> /\ objects_of(req) # <<>>) =>
           formulated_reqs[i] = add_context(req.doc, template)

\* C10: every requirement text that extract_requirements returns begins
\* with "The system shall"; none begins with "The customer should" or "The
\* administrator should", since a draft "The customer shall ..." or "The
\* administrator shall ..." is always prefixed.
C10_PipelineOutputLead ==
  Classified =>
    \A i \in 1..Len(classified_reqs) :
      /\ startswith(classified_reqs[i].requirement, <<"T","h","e"," ","s","y","s","t","e","m"," ","s","h","a","l","l">> (* "The system shall" *))
      /\ ~startswith(lower(classified_reqs[i].requirement), <<"t","h","e"," ","c","u","s","t","o","m","e","r"," ","s","h","o","u","l","d">> (* "the customer should" *))
      /\ ~startswith(lower(classified_reqs[i].requirement),
                     <<"t","h","e"," ","a","d","m","i","n","i","s","t","r","a","t","o","r"," ","s","h","o","u","l","d">> (* "the administrator should" *))

\* C10 witness: a draft "The customer shall ..." and a draft "The
\* administrator shall ..." were prefixed and returned.
C10_Witness ==
  /\ Classified
  /\ \E i, j \in 1..Len(formulated_reqs) :
       /\ startswith(formulated_reqs[i], <<"T","h","e"," ","c","u","s","t","o","m","e","r"," ","s","h","a","l","l"," ">> (* "The customer shall " *))
       /\ startswith(formulated_reqs[j], <<"T","h","e"," ","a","d","m","i","n","i","s","t","r","a","t","o","r"," ","s","h","a","l","l"," ">> (* "The administrator shall " *))
       /\ \E k, l \in 1..Len(classified_reqs) :
            /\ classified_reqs[k].requirement =
                 <<"T","h","e"," ","s","y","s","t","e","m"," ","s","h","a","l","l"," ">> (* "The system shall " *) \o formulated_reqs[i] \o <<".">>
            /\ classified_reqs[l].requirement =
                 <<"T","h","e"," ","s","y","s","t","e","m"," ","s","h","a","l","l"," ">> (* "The system shall " *) \o formulated_reqs[j] \o <<".">>

============================================================================
